---- MODULE Spec2Model ----
(***************************************************************************)
(* Model of src/server.js: the POST /upload handler that publishes a batch *)
(* of files to a remote repository as one commit.  The file holds two      *)
(* versions of the server (lines 1-171 and 173-370); `copy` says which one *)
(* is running.  Text is modelled as sequences of one-character strings so  *)
(* that trim, replace, startsWith and includes are computed.               *)
(***************************************************************************)
EXTENDS Integers, Sequences, FiniteSets, TLC

\* ------------------------------------------------------------------ bounds
MaxFiles == 2        \* files in one submission (single-request runs)
MaxRequests == 2     \* requests received in a two-request run
MaxPathLen == 2      \* length of the basePath form field (basePath runs)

\* ------------------------------------------------------------------ text
WS == {" "}
SL == "/"
BS == "\\"

RECURSIVE TrimLeft(_)
TrimLeft(s) == IF s = <<>> THEN s
               ELSE IF Head(s) \in WS THEN TrimLeft(Tail(s)) ELSE s

RECURSIVE TrimRight(_)
TrimRight(s) == IF s = <<>> THEN s
                ELSE IF s[Len(s)] \in WS THEN TrimRight(SubSeq(s, 1, Len(s) - 1)) ELSE s

\* String.prototype.trim
Trim(s) == TrimRight(TrimLeft(s))

\* String(x || d): an absent or empty form field takes the default
OrDefault(raw, d) == IF raw = <<>> THEN d ELSE raw

\* s.replace(/^\/+/, "")
RECURSIVE StripLeadingSlashes(_)
StripLeadingSlashes(s) == IF s = <<>> THEN s
                          ELSE IF Head(s) = SL THEN StripLeadingSlashes(Tail(s)) ELSE s

\* s.replace(/\/?$/, "/"): the first match is the final slash when there is
\* one, the empty string at the end otherwise
EnsureTrailingSlash(s) == IF s # <<>> /\ s[Len(s)] = SL THEN s ELSE Append(s, SL)

\* s.replace(/\\/g, "/")
ReplaceBackslashes(s) == [k \in 1..Len(s) |-> IF s[k] = BS THEN SL ELSE s[k]]

StartsWith(s, p) == Len(s) >= Len(p) /\ SubSeq(s, 1, Len(p)) = p

Includes(s, p) == \E k \in 0..(Len(s) - Len(p)) : SubSeq(s, k + 1, k + Len(p)) = p

DotEnv == <<".", "e", "n", "v">>
SessionPrefix == <<"s", "e", "s", "s", "i", "o", "n">>
AuthInfo == <<"a", "u", "t", "h", "_", "i", "n", "f", "o">>
CredentialsJson == <<"c", "r", "e", "d", "e", "n", "t", "i", "a", "l", "s", ".", "j", "s", "o", "n">>
DefaultName == <<"f", "i", "l", "e">>
DefaultBranch == <<"m", "a", "i", "n">>
DefaultMessage == <<"U", "p", "l", "o", "a", "d", " ", "v", "i", "a", " ", "w", "e", "b", " ", "u", "p", "l", "o", "a", "d", "e", "r">>
HeadsPrefix == <<"h", "e", "a", "d", "s", "/">>

\* `heads/${branch}`
Heads(branch) == HeadsPrefix \o branch

\* basePathRaw ? basePathRaw.replace(/^\/+/, "").replace(/\/?$/, "/") : ""
NormBasePath(raw) == IF raw # <<>> THEN EnsureTrailingSlash(StripLeadingSlashes(raw)) ELSE <<>>

\* (f.originalname || "file").replace(/\\/g, "/")
NameOf(f) == ReplaceBackslashes(OrDefault(f.originalname, DefaultName))

IsSensitiveNoEnv(c, name) ==
    \/ StartsWith(name, SessionPrefix)
    \/ Includes(name, AuthInfo)
    \/ name = CredentialsJson

\* the "skip file sensitif" / "safety skip" condition; the second copy adds a
\* startsWith("auth_info") test
IsSensitive(c, name) ==
    \/ name = DotEnv
    \/ StartsWith(name, SessionPrefix)
    \/ (c = 2 /\ StartsWith(name, AuthInfo))
    \/ Includes(name, AuthInfo)
    \/ name = CredentialsJson

\* f.buffer.toString("base64")
Base64(buf) == <<"base64", buf>>
Base64Decode(enc) == enc[2]

\* ------------------------------------------------------------------ data
Req == {1, 2}                      \* request slots: two requests may overlap

NoSha == [kind |-> "none", id |-> 0]
Sha(k, n) == [kind |-> k, id |-> n]

NoReq == [merr |-> "none", token |-> <<>>, owner |-> <<>>, repo |-> <<>>, branch |-> <<>>,
          basePath |-> <<>>, message |-> <<>>, files |-> <<>>]

\* the handler's sha locals and the position of the file loop
NoFrame == [latestCommitSha |-> NoSha, baseTreeSha |-> NoSha, i |-> 0,
            newTreeSha |-> NoSha, newCommitSha |-> NoSha]

NoCall == [op |-> "", state |-> "pending", status |-> 0, ret |-> NoSha,
           token |-> <<>>, owner |-> <<>>, repo |-> <<>>, ref |-> <<>>,
           commit_sha |-> NoSha, content |-> <<>>, file |-> 0,
           base_tree |-> NoSha, tree |-> <<>>, message |-> <<>>,
           tree_sha |-> NoSha, parents |-> <<>>, sha |-> NoSha, force |-> FALSE]

NoFin == [tree |-> <<>>, skipped |-> <<>>]

NoResp == [status |-> 0, ok |-> FALSE, code |-> "", commit |-> NoSha, uploaded |-> 0,
           skipped |-> <<>>, github_status |-> 0]

VARIABLES
    copy,       \* which version of the server runs: 1 (lines 1-171) or 2 (lines 173-370)
    pc,         \* per request: "idle", the remote call it awaits, or "done"
    req,        \* per request: the parsed multipart submission (req.body, req.files)
    loc,        \* per request: latestCommitSha, baseTreeSha, loop index, newTree, newCommit
    tree,       \* per scope: the tree entries collected so far
    skipped,    \* per scope: the names filtered so far
    calls,      \* per request: the remote calls issued, in order, with their outcome
    resp,       \* per request: the HTTP response sent
    fin,        \* per request: what tree and skipped held when the response was sent
    received,   \* number of requests received so far
    refs,       \* remote: <<owner, repo, ref>> -> commit sha
    blobs,      \* remote: blob contents, blob n is blobs[n]
    trees,      \* remote: tree objects [base, entries]
    commits     \* remote: commit objects [tree, parents, message]

vars == <<copy, pc, req, loc, tree, skipped, calls, resp, fin, received, refs, blobs, trees, commits>>
remote == <<refs, blobs, trees, commits>>

\* ------------------------------------------------------------------ request fields
Token(r) == Trim(OrDefault(req[r].token, <<>>))
Owner(r) == Trim(OrDefault(req[r].owner, <<>>))
Repo(r) == Trim(OrDefault(req[r].repo, <<>>))
Branch(r) == Trim(OrDefault(req[r].branch, DefaultBranch))
BasePath(r) == NormBasePath(Trim(OrDefault(req[r].basePath, <<>>)))
Message(r) == Trim(OrDefault(req[r].message, DefaultMessage))
Files(r) == req[r].files

ScopeShared(r) == 1

\* `const tree = []; const skipped = [];` are declared inside the handler:
\* every invocation has its own
Scope(r) == r

BaseTreeOmitted(L) == NoSha

\* createTree is given `base_tree: baseTreeSha`
BaseTree(L) == L.baseTreeSha

ForceAlways == TRUE

\* updateRef is called with owner, repo, ref and sha only
Force == FALSE

\* ------------------------------------------------------------------ the file loop
\* first index >= from whose file is not filtered, Len + 1 when there is none
RECURSIVE NextUpload(_, _, _)
NextUpload(c, files, from) ==
    IF from > Len(files) THEN from
    ELSE IF IsSensitive(c, NameOf(files[from])) THEN NextUpload(c, files, from + 1)
    ELSE from

\* names of files[from..to], pushed to skipped when all of them are filtered
SkippedNames(files, from, to) == [k \in 1..(to - from + 1) |-> NameOf(files[from + k - 1])]

\* tree.push({ path, mode, type, sha })
Entry(base, name, sha) == [path |-> base \o name, mode |-> "100644", type |-> "blob", sha |-> sha]

ChainSwapped(op) ==
    CASE op = "getRef" -> "getCommit"
      [] op = "getCommit" -> "loop"
      [] op = "createBlob" -> "loop"
      [] op = "loop" -> "createCommit"
      [] op = "createCommit" -> "createTree"
      [] op = "createTree" -> "updateRef"
      [] op = "updateRef" -> "respond"

\* what the handler does after `op` returned successfully
Chain(op) ==
    CASE op = "getRef" -> "getCommit"
      [] op = "getCommit" -> "loop"
      [] op = "createBlob" -> "loop"
      [] op = "loop" -> "createTree"
      [] op = "createTree" -> "createCommit"
      [] op = "createCommit" -> "updateRef"
      [] op = "updateRef" -> "respond"

\* the arguments of each octokit.git.* call
Args(r, op, L, T) ==
    LET base == [NoCall EXCEPT !.op = op, !.token = Token(r), !.owner = Owner(r), !.repo = Repo(r)]
    IN CASE op = "getRef" -> [base EXCEPT !.ref = Heads(Branch(r))]
         [] op = "getCommit" -> [base EXCEPT !.commit_sha = L.latestCommitSha]
         [] op = "createBlob" -> [base EXCEPT !.content = Base64(Files(r)[L.i].buffer), !.file = L.i]
         [] op = "createTree" -> [base EXCEPT !.base_tree = BaseTree(L), !.tree = T]
         [] op = "createCommit" -> [base EXCEPT !.message = Message(r), !.tree_sha = L.newTreeSha,
                                                !.parents = <<L.latestCommitSha>>]
         [] op = "updateRef" -> [base EXCEPT !.ref = Heads(Branch(r)), !.sha = L.newCommitSha,
                                             !.force = Force]

\* ------------------------------------------------------------------ responses
ErrBody(status, code) == [NoResp EXCEPT !.status = status, !.code = code]

OkBodyThrows(commitSha, uploaded, skippedNames) == ErrBody(500, "UPLOAD_FAILED")

\* res.json({ ok: true, rid, commit, uploaded, skipped })
OkBody(commitSha, uploaded, skippedNames) ==
    [NoResp EXCEPT !.status = 200, !.ok = TRUE, !.commit = commitSha,
                   !.uploaded = uploaded, !.skipped = skippedNames]

CatchAlways500(c, e) == [ErrBody(500, "UPLOAD_FAILED") EXCEPT !.github_status = e.status]

\* the catch block: e is [code, status], status 0 when the error carries none
Catch(c, e) ==
    IF c = 1 /\ e.code = "LIMIT_FILE_SIZE" THEN ErrBody(413, "LIMIT_FILE_SIZE")
    ELSE LET status == IF e.status # 0 THEN e.status ELSE 500
         IN [ErrBody(IF status >= 400 /\ status < 600 THEN status ELSE 500, "UPLOAD_FAILED")
               EXCEPT !.github_status = e.status]

ValidateFilesFirst(token, owner, repo, files) ==
    IF files = <<>> THEN "NO_FILES"
    ELSE IF token = <<>> \/ owner = <<>> \/ repo = <<>> THEN "MISSING_FIELDS"
    ELSE ""

\* the two checks in front of the call chain, "" when both pass
Validate(token, owner, repo, files) ==
    IF token = <<>> \/ owner = <<>> \/ repo = <<>> THEN "MISSING_FIELDS"
    ELSE IF files = <<>> THEN "NO_FILES"
    ELSE ""

\* a multer error: the first copy has multer as route middleware, so the error
\* goes to the final error handler; the second copy handles it in the callback
MulterError(c, code) ==
    IF c = 1 THEN ErrBody(500, "SERVER_CRASH")
    ELSE IF code = "LIMIT_FILE_SIZE" THEN ErrBody(413, "LIMIT_FILE_SIZE")
    ELSE IF code = "LIMIT_FILE_COUNT" THEN ErrBody(413, "LIMIT_FILE_COUNT")
    ELSE ErrBody(400, "MULTER_ERROR")

\* ------------------------------------------------------------------ the remote service
Last(q) == q[Len(q)]

IndexOf(q, x) == IF \E k \in 1..Len(q) : q[k] = x THEN CHOOSE k \in 1..Len(q) : q[k] = x ELSE 0

\* objects are stored once: the sha of an object is its position in the store
Put(q, x) == IF IndexOf(q, x) # 0 THEN q ELSE Append(q, x)

RefKey(c) == <<c.owner, c.repo, c.ref>>

IsCommit(cs, sha) == sha.kind = "commit" /\ sha.id \in 1..Len(cs)
IsTree(ts, sha) == sha.kind = "tree" /\ sha.id \in 1..Len(ts)

RECURSIVE IsAncestor(_, _, _)
IsAncestor(cs, a, b) ==
    \/ a = b
    \/ /\ IsCommit(cs, b)
       /\ \E k \in 1..Len(cs[b.id].parents) : IsAncestor(cs, a, cs[b.id].parents[k])

\* the remote accepts a ref update that is a fast-forward, or any with force
AcceptsUpdate(cs, old, new, force) == IsCommit(cs, new) /\ (force \/ IsAncestor(cs, old, new))

Err(status) == [code |-> "none", status |-> status]

\* ------------------------------------------------------------------ handler steps
Returned(cs, sha) == [cs EXCEPT ![Len(cs)].state = "ok", ![Len(cs)].status = 200, ![Len(cs)].ret = sha]
Failed(cs, status) == [cs EXCEPT ![Len(cs)].state = "failed", ![Len(cs)].status = status]

\* the response is sent and the invocation ends: its locals are gone
Answer(r, body, T, S, cs) ==
    /\ pc' = [pc EXCEPT ![r] = "done"]
    /\ fin' = [fin EXCEPT ![r] = [tree |-> T, skipped |-> S]]
    /\ resp' = [resp EXCEPT ![r] = body]
    /\ calls' = [calls EXCEPT ![r] = cs]
    /\ loc' = [loc EXCEPT ![r] = NoFrame]
    /\ tree' = [tree EXCEPT ![Scope(r)] = <<>>]
    /\ skipped' = [skipped EXCEPT ![Scope(r)] = <<>>]

\* the next remote call is issued and awaited
Issue(r, op, L, T, S, cs) ==
    /\ pc' = [pc EXCEPT ![r] = op]
    /\ loc' = [loc EXCEPT ![r] = L]
    /\ tree' = [tree EXCEPT ![Scope(r)] = T]
    /\ skipped' = [skipped EXCEPT ![Scope(r)] = S]
    /\ calls' = [calls EXCEPT ![r] = Append(cs, Args(r, op, L, T))]
    /\ resp' = resp
    /\ fin' = fin

IssueOrRespond(r, op, L, T, S, cs) ==
    IF op = "respond" THEN Answer(r, OkBody(L.newCommitSha, Len(T), S), T, S, cs)
    ELSE Issue(r, op, L, T, S, cs)

\* `for (const f of files)` from file `from` on, up to the next await, and
\* the `if (!tree.length)` check behind the loop
Loop(r, from, L, T, S, cs) ==
    LET j == NextUpload(copy, Files(r), from)
        S2 == S \o SkippedNames(Files(r), from, j - 1)
    IN IF j <= Len(Files(r)) THEN Issue(r, "createBlob", [L EXCEPT !.i = j], T, S2, cs)
       ELSE IF T = <<>> THEN Answer(r, [ErrBody(400, "ALL_SKIPPED") EXCEPT !.skipped = S2], T, S2, cs)
       ELSE IssueOrRespond(r, Chain("loop"), [L EXCEPT !.i = j], T, S2, cs)

\* the synchronous code that follows a successful await
Go(r, op, L, T, S, cs) ==
    IF op = "loop" THEN Loop(r, L.i + 1, L, T, S, cs)
    ELSE IssueOrRespond(r, op, L, T, S, cs)

\* a rejected await lands in the catch block
Fail(r, T, e) == Answer(r, Catch(copy, e), T, skipped[Scope(r)], Failed(calls[r], e.status))

\* ------------------------------------------------------------------ actions
\* POST /upload arrives: multer has parsed the body (or failed), the fields
\* are read and validated, and getRef is issued
Receive(r, in) ==
    /\ received' = received + 1
    /\ req' = [req EXCEPT ![r] = in]
    /\ UNCHANGED <<copy, remote>>
    /\ LET bad == Validate(Token(r)', Owner(r)', Repo(r)', in.files)
       IN IF in.merr # "none" THEN Answer(r, MulterError(copy, in.merr), <<>>, <<>>, <<>>)
          ELSE IF bad # "" THEN Answer(r, ErrBody(400, bad), <<>>, <<>>, <<>>)
          ELSE /\ pc' = [pc EXCEPT ![r] = "getRef"]
               /\ calls' = [calls EXCEPT ![r] = <<Args(r, "getRef", NoFrame, <<>>)'>>]
               /\ resp' = [resp EXCEPT ![r] = NoResp]
               /\ fin' = [fin EXCEPT ![r] = NoFin]
               /\ UNCHANGED <<loc, tree, skipped>>

GetRefReturn(r, out) ==
    /\ pc[r] = "getRef"
    /\ UNCHANGED <<copy, req, received, remote>>
    /\ LET c == Last(calls[r])
       IN IF out = 200 /\ RefKey(c) \in DOMAIN refs
          THEN Go(r, Chain("getRef"), [loc[r] EXCEPT !.latestCommitSha = refs[RefKey(c)]],
                  tree[Scope(r)], skipped[Scope(r)], Returned(calls[r], refs[RefKey(c)]))
          ELSE Fail(r, tree[Scope(r)], Err(IF out = 200 THEN 404 ELSE out))

GetCommitReturn(r, out) ==
    /\ pc[r] = "getCommit"
    /\ UNCHANGED <<copy, req, received, remote>>
    /\ LET c == Last(calls[r])
       IN IF out = 200 /\ IsCommit(commits, c.commit_sha)
          THEN LET t == commits[c.commit_sha.id].tree
               IN Go(r, Chain("getCommit"), [loc[r] EXCEPT !.baseTreeSha = t],
                     <<>>, <<>>, Returned(calls[r], t))
          ELSE Fail(r, tree[Scope(r)], Err(IF out = 200 THEN 404 ELSE out))

CreateBlobReturn(r, out) ==
    /\ pc[r] = "createBlob"
    /\ UNCHANGED <<copy, req, received, refs, trees, commits>>
    /\ LET c == Last(calls[r])
           store == Put(blobs, Base64Decode(c.content))
           sha == Sha("blob", IndexOf(store, Base64Decode(c.content)))
           f == Files(r)[loc[r].i]
       IN IF out = 200
          THEN /\ blobs' = store
               /\ Go(r, Chain("createBlob"), loc[r],
                     Append(tree[Scope(r)], Entry(BasePath(r), NameOf(f), sha)),
                     skipped[Scope(r)], Returned(calls[r], sha))
          ELSE /\ blobs' = blobs
               /\ Fail(r, tree[Scope(r)], Err(out))

CreateTreeReturn(r, out) ==
    /\ pc[r] = "createTree"
    /\ UNCHANGED <<copy, req, received, refs, blobs, commits>>
    /\ LET c == Last(calls[r])
           obj == [base |-> c.base_tree, entries |-> c.tree]
           store == Put(trees, obj)
           sha == Sha("tree", IndexOf(store, obj))
       IN IF out = 200 /\ (c.base_tree = NoSha \/ IsTree(trees, c.base_tree))
          THEN /\ trees' = store
               /\ Go(r, Chain("createTree"), [loc[r] EXCEPT !.newTreeSha = sha],
                     tree[Scope(r)], skipped[Scope(r)], Returned(calls[r], sha))
          ELSE /\ trees' = trees
               /\ Fail(r, tree[Scope(r)], Err(IF out = 200 THEN 422 ELSE out))

CreateCommitReturn(r, out) ==
    /\ pc[r] = "createCommit"
    /\ UNCHANGED <<copy, req, received, refs, blobs, trees>>
    /\ LET c == Last(calls[r])
           obj == [tree |-> c.tree_sha, parents |-> c.parents, message |-> c.message]
           sha == Sha("commit", Len(commits) + 1)
       IN IF /\ out = 200
             /\ IsTree(trees, c.tree_sha)
             /\ \A k \in 1..Len(c.parents) : IsCommit(commits, c.parents[k])
          THEN /\ commits' = Append(commits, obj)
               /\ Go(r, Chain("createCommit"), [loc[r] EXCEPT !.newCommitSha = sha],
                     tree[Scope(r)], skipped[Scope(r)], Returned(calls[r], sha))
          ELSE /\ commits' = commits
               /\ Fail(r, tree[Scope(r)], Err(IF out = 200 THEN 422 ELSE out))

UpdateRefReturn(r, out) ==
    /\ pc[r] = "updateRef"
    /\ UNCHANGED <<copy, req, received, blobs, trees, commits>>
    /\ LET c == Last(calls[r])
       IN IF /\ out = 200
             /\ RefKey(c) \in DOMAIN refs
             /\ AcceptsUpdate(commits, refs[RefKey(c)], c.sha, c.force)
          THEN /\ refs' = [refs EXCEPT ![RefKey(c)] = c.sha]
               /\ Go(r, Chain("updateRef"), loc[r], tree[Scope(r)], skipped[Scope(r)],
                     Returned(calls[r], c.sha))
          ELSE /\ refs' = refs
               /\ Fail(r, tree[Scope(r)], Err(IF out = 200 THEN 422 ELSE out))

\* ------------------------------------------------------------------ inputs
OwnerO == <<"o">>
OwnerP == <<"p">>
RepoR == <<"r">>
Dev == <<"d", "e", "v">>

File(name, buf) == [originalname |-> name, buffer |-> buf]

Attachments ==
    { File(DotEnv, "c1"),
      File(DotEnv \o <<"x">>, "c1"),
      File(SessionPrefix \o <<"1">>, "c1"),
      File(<<"x">> \o AuthInfo, "c1"),
      File(CredentialsJson, "c1"),
      File(<<"d", BS, "b">>, "c1"),
      File(<<"a">>, "c1") }

SeqsUpTo(S, n) == UNION {[1..k -> S] : k \in 0..n}

MulterCodes == {"none", "LIMIT_FILE_SIZE", "LIMIT_FILE_COUNT", "LIMIT_UNEXPECTED_FILE"}

Submissions ==
    [merr : MulterCodes,
     token : {<<>>, <<" ">>, <<"t">>},
     owner : {<<>>, OwnerO},
     repo : {<<>>, RepoR},
     branch : {<<>>, Dev, <<"x">>},
     basePath : {<<>>, <<SL, "d">>},
     message : {<<>>, <<"m", " ">>},
     files : SeqsUpTo(Attachments, MaxFiles)]

\* error statuses a remote call may fail with; 0 is an error without status
Injected == {0, 399, 400, 599, 600}
Outcomes == {200} \cup Injected

ExistingRefs == {<<OwnerO, RepoR, Heads(DefaultBranch)>>, <<OwnerO, RepoR, Heads(Dev)>>,
                 <<OwnerP, RepoR, Heads(Dev)>>}

Init ==
    /\ copy \in {1, 2}
    /\ pc = [r \in Req |-> "idle"]
    /\ req = [r \in Req |-> NoReq]
    /\ loc = [r \in Req |-> NoFrame]
    /\ tree = [r \in Req |-> <<>>]
    /\ skipped = [r \in Req |-> <<>>]
    /\ calls = [r \in Req |-> <<>>]
    /\ resp = [r \in Req |-> NoResp]
    /\ fin = [r \in Req |-> NoFin]
    /\ received = 0
    /\ refs = [k \in ExistingRefs |-> Sha("commit", 1)]
    /\ blobs = <<>>
    /\ trees = <<[base |-> NoSha, entries |-> <<>>]>>
    /\ commits = <<[tree |-> Sha("tree", 1), parents |-> <<>>, message |-> <<"i">>]>>

\* one request against the server
Submit(r) == pc[r] = "idle" /\ \E in \in Submissions : Receive(r, in)

Next ==
    \/ Submit(1)
    \/ \E out \in Outcomes : GetRefReturn(1, out)
    \/ \E out \in Outcomes : GetCommitReturn(1, out)
    \/ \E out \in Outcomes : CreateBlobReturn(1, out)
    \/ \E out \in Outcomes : CreateTreeReturn(1, out)
    \/ \E out \in Outcomes : CreateCommitReturn(1, out)
    \/ \E out \in Outcomes : UpdateRefReturn(1, out)

Spec == Init /\ [][Next]_vars

\* ------------------------------------------------------------------ two overlapping requests
TokenT == <<"t">>
TokenU == <<"u">>

Profiles ==
    { [NoReq EXCEPT !.token = TokenT, !.owner = OwnerO, !.repo = RepoR],
      [NoReq EXCEPT !.token = TokenU, !.owner = OwnerO, !.repo = RepoR,
                    !.basePath = <<"d">>, !.message = <<"m">>],
      [NoReq EXCEPT !.token = TokenT, !.owner = OwnerP, !.repo = RepoR, !.branch = Dev] }

ConcFileLists ==
    { <<File(<<"a">>, "c1")>>,
      <<File(DotEnv, "c1"), File(<<"a">>, "c2")>> }

ConcSubmissions == {[p EXCEPT !.files = fs] : p \in Profiles, fs \in ConcFileLists}

\* in the two-request runs the remote fails a call only for cause: an
\* unknown ref, an unknown object, a ref update that is not a fast-forward
ConcOutcomes == {200}

\* a request arrives while another may be in flight; a slot whose request
\* has been answered serves the next one (slots are interchangeable: the first
\* request takes slot 1)
SubmitConc(r) ==
    /\ pc[r] \in {"idle", "done"}
    /\ r = 1 \/ pc[1] # "idle"
    /\ received < MaxRequests
    /\ \E in \in ConcSubmissions : Receive(r, in)

NextConc ==
    \E r \in Req :
        \/ SubmitConc(r)
        \/ \E out \in ConcOutcomes : GetRefReturn(r, out)
        \/ \E out \in ConcOutcomes : GetCommitReturn(r, out)
        \/ \E out \in ConcOutcomes : CreateBlobReturn(r, out)
        \/ \E out \in ConcOutcomes : CreateTreeReturn(r, out)
        \/ \E out \in ConcOutcomes : CreateCommitReturn(r, out)
        \/ \E out \in ConcOutcomes : UpdateRefReturn(r, out)

SpecConc == Init /\ [][NextConc]_vars

\* ------------------------------------------------------------------ every basePath
PathAlphabet == {SL, "d", " "}
PathOutcomes == {200, 500}

PathSubmissions ==
    {[NoReq EXCEPT !.token = TokenT, !.owner = OwnerO, !.repo = RepoR,
                   !.basePath = b, !.files = <<f>>] :
        b \in SeqsUpTo(PathAlphabet, MaxPathLen),
        f \in {File(<<"a">>, "c1"), File(<<"d", BS, "b">>, "c1")}}

SubmitPath(r) == pc[r] = "idle" /\ \E in \in PathSubmissions : Receive(r, in)

NextPath ==
    \/ SubmitPath(1)
    \/ \E out \in PathOutcomes : GetRefReturn(1, out)
    \/ \E out \in PathOutcomes : GetCommitReturn(1, out)
    \/ \E out \in PathOutcomes : CreateBlobReturn(1, out)
    \/ \E out \in PathOutcomes : CreateTreeReturn(1, out)
    \/ \E out \in PathOutcomes : CreateCommitReturn(1, out)
    \/ \E out \in PathOutcomes : UpdateRefReturn(1, out)

SpecPath == Init /\ [][NextPath]_vars

\* ------------------------------------------------------------------ properties: vocabulary
Answered(r) == pc[r] = "done"
Ops(r) == [k \in 1..Len(calls[r]) |-> calls[r][k].op]
CallsOf(r, op) == {k \in 1..Len(calls[r]) : calls[r][k].op = op}
TheCall(r, op) == calls[r][CHOOSE k \in CallsOf(r, op) : TRUE]
InErrorRange(s) == s >= 400 /\ s <= 599

\* the four filename rules, as the documentation of the filter states them
NamedSensitive(name) ==
    \/ name = DotEnv
    \/ name = CredentialsJson
    \/ StartsWith(name, SessionPrefix)
    \/ Includes(name, AuthInfo)

\* the numbers of S in ascending order
Ascending(S) ==
    [k \in 1..Cardinality(S) |-> CHOOSE x \in S : Cardinality({y \in S : y < x}) = k - 1]

\* indices of the submitted files that are (not) filtered, in submission order
UploadIdx(r) == Ascending({k \in 1..Len(Files(r)) : ~NamedSensitive(NameOf(Files(r)[k]))})
SkipIdx(r) == Ascending({k \in 1..Len(Files(r)) : NamedSensitive(NameOf(Files(r)[k]))})
BlobCalls(r) == Ascending(CallsOf(r, "createBlob"))

\* the file loop ran to its end
LoopCompleted(r) ==
    /\ Answered(r)
    /\ \/ resp[r].code = "ALL_SKIPPED"
       \/ CallsOf(r, "createTree") # {}

\* the file loop was entered
LoopReached(r) == Len(calls[r]) >= 2 /\ calls[r][2].op = "getCommit" /\ calls[r][2].state = "ok"

\* every file is in its place: skipped holds the filtered names, and there is
\* one createBlob and one tree entry per other file, in submission order
FilesPlaced(r) ==
    LET up == UploadIdx(r)
        sk == SkipIdx(r)
        bc == BlobCalls(r)
    IN /\ fin[r].skipped = [k \in 1..Len(sk) |-> NameOf(Files(r)[sk[k]])]
       /\ [k \in 1..Len(bc) |-> calls[r][bc[k]].file] = up
       /\ Len(fin[r].tree) = Len(up)
       /\ \A k \in 1..Len(up) :
            /\ calls[r][bc[k]].content = Base64(Files(r)[up[k]].buffer)
            /\ fin[r].tree[k] = Entry(BasePath(r), NameOf(Files(r)[up[k]]), calls[r][bc[k]].ret)

\* ------------------------------------------------------------------ C1
\* C1: the remote calls of a request are issued in the order getRef,
\* getCommit, createBlob (in file order), createTree, createCommit, updateRef,
\* and each is issued only after the one before it returned successfully.
C1_CallOrder ==
    \A r \in Req : \A k \in 1..Len(calls[r]) :
        LET c == calls[r][k]
            prev == calls[r][k - 1]
        IN /\ k < Len(calls[r]) => c.state = "ok"
           /\ c.state = "pending" => pc[r] = c.op
           /\ k = 1 => c.op = "getRef"
           /\ k > 1 =>
                CASE c.op = "getCommit" -> prev.op = "getRef"
                  [] c.op = "createBlob" -> \/ prev.op = "getCommit"
                                            \/ prev.op = "createBlob" /\ prev.file < c.file
                  [] c.op = "createTree" -> prev.op = "createBlob"
                  [] c.op = "createCommit" -> prev.op = "createTree"
                  [] c.op = "updateRef" -> prev.op = "createCommit"
                  [] OTHER -> FALSE

C1_Witness ==
    /\ Answered(1)
    /\ Ops(1) = <<"getRef", "getCommit", "createBlob", "createBlob", "createTree",
                  "createCommit", "updateRef">>
    /\ \A k \in 1..7 : calls[1][k].state = "ok"

\* ------------------------------------------------------------------ C2
\* C2: a request answered ok:true issued exactly one createTree, createCommit
\* and updateRef; base_tree is the tree of the tip getRef returned, the commit
\* has that tip as only parent and the new tree as tree, updateRef sets
\* heads/<branch> to the new commit, and the response reports that commit.
C2_OneCommit ==
    \A r \in Req : resp[r].ok =>
        /\ \A op \in {"getRef", "createTree", "createCommit", "updateRef"} :
               Cardinality(CallsOf(r, op)) = 1
        /\ LET gr == TheCall(r, "getRef")
               ct == TheCall(r, "createTree")
               cc == TheCall(r, "createCommit")
               ur == TheCall(r, "updateRef")
           IN /\ IsCommit(commits, gr.ret)
              /\ ct.base_tree = commits[gr.ret.id].tree
              /\ cc.parents = <<gr.ret>>
              /\ cc.tree_sha = ct.ret
              /\ commits[cc.ret.id].tree = ct.ret
              /\ ur.ref = Heads(Branch(r))
              /\ ur.sha = cc.ret
              /\ resp[r].commit = cc.ret

C2_Witness ==
    /\ resp[1].ok
    /\ resp[1].commit = Sha("commit", 2)
    /\ TheCall(1, "createTree").base_tree = Sha("tree", 1)
    /\ refs[<<OwnerO, RepoR, Heads(Dev)>>] = Sha("commit", 2)

\* ------------------------------------------------------------------ C3
\* C3 as stated: in every request that reaches the file loop, each file ends
\* either in skipped (no createBlob) or with one createBlob and one tree entry.
C3_EveryFilePlaced == \A r \in Req : Answered(r) /\ LoopReached(r) => FilesPlaced(r)

\* C3 amended: the same for every request whose file loop runs to its end; a
\* request stopped by a failing createBlob has placed the files before the
\* failing one only.  In an ok:true response uploaded + length(skipped) is the
\* number of files and the tree entries are in file order.
C3_FilesPlacedWhenLoopCompletes ==
    \A r \in Req :
        /\ LoopCompleted(r) => FilesPlaced(r)
        /\ resp[r].ok =>
             /\ resp[r].uploaded + Len(resp[r].skipped) = Len(Files(r))
             /\ resp[r].uploaded = Len(TheCall(r, "createTree").tree)
             /\ resp[r].skipped = fin[r].skipped
             /\ TheCall(r, "createTree").tree = fin[r].tree
        /\ Answered(r) /\ LoopReached(r) /\ ~LoopCompleted(r) =>
             /\ Last(calls[r]).op = "createBlob" /\ Last(calls[r]).state = "failed"
             /\ LET bc == BlobCalls(r)
                    at == Last(calls[r]).file
                IN /\ Len(fin[r].tree) = Len(bc) - 1
                   /\ \A k \in 1..Len(bc) : ~NamedSensitive(NameOf(Files(r)[calls[r][bc[k]].file]))
                   /\ \A k \in 1..(at - 1) :
                        NamedSensitive(NameOf(Files(r)[k]))
                          <=> (\A j \in 1..Len(bc) : calls[r][bc[j]].file # k)
                   /\ Len(fin[r].skipped) + Len(bc) = at

C3_Witness ==
    /\ resp[1].ok
    /\ Len(Files(1)) = 2
    /\ resp[1].uploaded = 1
    /\ resp[1].skipped = <<DotEnv>>
    /\ TheCall(1, "createTree").tree[1].path = <<"d", SL, "d", SL, "b">>

\* ------------------------------------------------------------------ C4
\* C4: a failing remote call is answered UPLOAD_FAILED with the remote status
\* when that is in 400..599 and with 500 otherwise, and it is the last call.
C4_ForwardStatus ==
    \A r \in Req : \A k \in 1..Len(calls[r]) :
        calls[r][k].state = "failed" =>
            /\ k = Len(calls[r])
            /\ Answered(r)
            /\ resp[r].code = "UPLOAD_FAILED"
            /\ ~resp[r].ok
            /\ resp[r].status = IF InErrorRange(calls[r][k].status) THEN calls[r][k].status ELSE 500

C4_Witness ==
    /\ Answered(1)
    /\ calls[1] # <<>>
    /\ Last(calls[1]).op = "createCommit"
    /\ Last(calls[1]).state = "failed"
    /\ resp[1].status = 599

\* ------------------------------------------------------------------ C6
\* C6: empty token, owner or repo gives 400 MISSING_FIELDS, else no files
\* gives 400 NO_FILES, both without any remote call; a file loop that filters
\* every file gives 400 ALL_SKIPPED with the names, after getRef and getCommit
\* only; none of the three issues createTree, createCommit or updateRef.
C6_Rejections ==
    \A r \in Req : Answered(r) /\ req[r].merr = "none" =>
        LET missing == Token(r) = <<>> \/ Owner(r) = <<>> \/ Repo(r) = <<>>
            nofiles == Files(r) = <<>>
            allsens == \A k \in 1..Len(Files(r)) : NamedSensitive(NameOf(Files(r)[k]))
        IN /\ (resp[r].code = "MISSING_FIELDS") <=> missing
           /\ (resp[r].code = "NO_FILES") <=> (~missing /\ nofiles)
           /\ (resp[r].code = "ALL_SKIPPED") <=> (~missing /\ ~nofiles /\ allsens /\ LoopReached(r))
           /\ resp[r].code \in {"MISSING_FIELDS", "NO_FILES"} =>
                resp[r].status = 400 /\ ~resp[r].ok /\ calls[r] = <<>>
           /\ resp[r].code = "ALL_SKIPPED" =>
                /\ resp[r].status = 400 /\ ~resp[r].ok
                /\ Ops(r) = <<"getRef", "getCommit">>
                /\ resp[r].skipped = [k \in 1..Len(Files(r)) |-> NameOf(Files(r)[k])]

C6_Witness ==
    /\ Answered(1)
    /\ resp[1].code = "ALL_SKIPPED"
    /\ resp[1].skipped = <<CredentialsJson, <<"x">> \o AuthInfo>>

\* ------------------------------------------------------------------ C7
\* C7: a submission multer rejects with LIMIT_FILE_SIZE is answered 413 with
\* ok:false and code LIMIT_FILE_SIZE, and no remote call is issued.
C7_FileTooLarge ==
    \A r \in Req : Answered(r) /\ req[r].merr = "LIMIT_FILE_SIZE" =>
        /\ resp[r].status = 413
        /\ ~resp[r].ok
        /\ resp[r].code = "LIMIT_FILE_SIZE"
        /\ calls[r] = <<>>

\* ------------------------------------------------------------------ C8
\* C8: the branch ref moves only with the successful return of updateRef, the
\* last call of a request, and that request is answered ok:true; a request
\* answered anything else leaves every ref as it found it.
C8_RefMovesLast ==
    /\ ~Answered(1) => refs = [k \in ExistingRefs |-> Sha("commit", 1)]
    /\ Answered(1) /\ ~resp[1].ok => refs = [k \in ExistingRefs |-> Sha("commit", 1)]
    /\ refs # [k \in ExistingRefs |-> Sha("commit", 1)] =>
         /\ resp[1].ok
         /\ Last(calls[1]).op = "updateRef" /\ Last(calls[1]).state = "ok"
         /\ refs = [[k \in ExistingRefs |-> Sha("commit", 1)]
                      EXCEPT ![RefKey(Last(calls[1]))] = resp[1].commit]

C8_Witness ==
    /\ Answered(1)
    /\ calls[1] # <<>>
    /\ Last(calls[1]).op = "updateRef"
    /\ Last(calls[1]).state = "failed"
    /\ refs[<<OwnerO, RepoR, Heads(DefaultBranch)>>] = Sha("commit", 1)
    /\ Len(commits) = 2

\* ------------------------------------------------------------------ C5
Target(r) == <<Owner(r), Repo(r), Heads(Branch(r))>>
OwnNames(r) == {NameOf(Files(r)[k]) : k \in 1..Len(Files(r))}

\* the entries a request builds from its own files: path from its basePath
\* and its file's name, sha the blob of its file's content
OwnEntries(r) ==
    LET up == UploadIdx(r)
    IN [k \in 1..Len(up) |->
          Entry(BasePath(r), NameOf(Files(r)[up[k]]),
                Sha("blob", IndexOf(blobs, Files(r)[up[k]].buffer)))]

IsPrefix(a, b) == Len(a) <= Len(b) /\ SubSeq(b, 1, Len(a)) = a

\* C5: with two requests overlapping in any way, each request's calls carry
\* its own token, owner, repo, branch and message, its tree entries come from
\* its own files, its skipped list holds its own names, and an answered
\* request leaves no handler state behind.
C5_RequestScoped ==
    \A r \in Req :
        /\ \A k \in 1..Len(calls[r]) :
             LET c == calls[r][k]
             IN /\ c.token = Token(r) /\ c.owner = Owner(r) /\ c.repo = Repo(r)
                /\ c.op \in {"getRef", "updateRef"} => c.ref = Heads(Branch(r))
                /\ c.op = "createCommit" => c.message = Message(r)
                /\ c.op = "createBlob" => c.content = Base64(Files(r)[c.file].buffer)
                /\ c.op = "createTree" => c.tree = OwnEntries(r)
        /\ IsPrefix(tree[r], OwnEntries(r))
        /\ \A k \in 1..Len(skipped[r]) : skipped[r][k] \in OwnNames(r)
        /\ \A k \in 1..Len(resp[r].skipped) : resp[r].skipped[k] \in OwnNames(r)
        /\ pc[r] \in {"idle", "done", "getRef"} =>
             loc[r] = NoFrame /\ tree[r] = <<>> /\ skipped[r] = <<>>

C5_Witness ==
    /\ pc[1] = "createTree"
    /\ pc[2] = "createTree"
    /\ Token(1) # Token(2)
    /\ tree[1] # tree[2]
    /\ Target(1) = Target(2)

\* ------------------------------------------------------------------ C9
C9_ReportedCommitsReachable ==
    \A r \in Req : resp[r].ok => IsAncestor(commits, resp[r].commit, refs[Target(r)])

C9_StaleTipRejected ==
    \A r \in Req :
        (/\ pc[r] = "updateRef"
         /\ refs[Target(r)] # loc[r].latestCommitSha
         /\ pc'[r] = "done")
        => /\ ~resp'[r].ok
           /\ resp'[r].code = "UPLOAD_FAILED"
           /\ Last(calls'[r]).op = "updateRef" /\ Last(calls'[r]).state = "failed"
           /\ resp'[r].status = IF InErrorRange(Last(calls'[r]).status)
                                THEN Last(calls'[r]).status ELSE 500
           /\ refs' = refs

\* C9: updateRef is never forced, so with a remote that rejects a ref update
\* that is not a fast-forward every commit reported in an ok:true response is
\* the branch tip or an ancestor of it, and a request whose tip is stale at
\* its updateRef is answered UPLOAD_FAILED with the remote's status.
C9_NoLostUpdate == []C9_ReportedCommitsReachable /\ [][C9_StaleTipRejected]_vars

C9_Witness ==
    /\ Answered(1) /\ Answered(2)
    /\ Target(1) = Target(2)
    /\ resp[1].ok
    /\ resp[2].code = "UPLOAD_FAILED" /\ resp[2].status = 422
    /\ calls[2] # <<>> /\ Last(calls[2]).op = "updateRef"
    /\ refs[Target(1)] = resp[1].commit

\* ------------------------------------------------------------------ C10
RelativeDir(p) == p = <<>> \/ (Head(p) # SL /\ Last(p) = SL)

\* C10: the normalised basePath is empty or does not begin with '/' and ends
\* with '/', so no tree entry path passed to createTree begins with '/'.
C10_RelativePaths ==
    \A r \in Req : \A k \in CallsOf(r, "createTree") :
        /\ RelativeDir(BasePath(r))
        /\ \A j \in 1..Len(calls[r][k].tree) : Head(calls[r][k].tree[j].path) # SL
====
